---- MODULE Spec2Model ----
(***************************************************************************)
(* Model of src/render.rs of bevy_rich_text3d: the text_render system, its *)
(* glyph atlas cache lookup (get_atlas_rect / cache_glyph) and the mesh    *)
(* accessor get_mesh, together with the collaborators the system talks to  *)
(* (asset stores, change detection, the asynchronous producer).            *)
(***************************************************************************)
EXTENDS Integers, Sequences, FiniteSets, TLC

(* ------------------------------ bounds -------------------------------- *)
NumEntities == 2
MaxQueue == 2
MaxEvents == 2

(* ------------------------- program constants -------------------------- *)
\* settings.default_atlas_dimension, in atlas cells
DefaultAtlasW == 2
DefaultAtlasH == 1

Entities == 1..NumEntities
\* The atlases of the model: atlas 1 exists from the start, atlas 2 only once the
\* asynchronous producer delivered it
AtlasIds == {1, 2}
\* AssetId::default(): the id of a handle that was never bound
DefaultId == 0
\* Option::None for an optional mesh component
NoComponent == 0 - 1
\* Option::None for a segment's weight override
NoWeight == 0
Normal == 400
Bold == 700
Weights == {Normal, Bold}
Components == {"text", "bounds", "styling", "segment"}

(* ------------------------------ inputs -------------------------------- *)
\* Text3d values the entities can carry: sequences of (glyphs, SegmentStyle)
Seg(g, w, s) == [glyphs |-> g, weight |-> w, stroke |-> s, underline |-> FALSE]

\* The same segment with SegmentStyle.underline set
Underlined(seg) == [seg EXCEPT !.underline = TRUE]

\* Glyph ids of the model. 1, 2: glyphs with an outline; 3: whitespace (an
\* advance, no outline); 4: a combining mark (an outline, no advance); 5: a glyph
\* the shaper took from a fallback font whose face does not parse; LineBreak: not
\* a glyph, the place where the text breaks into the next line
LineBreak == 0

Texts ==
    << << Seg(<<1>>, NoWeight, 0) >>,
       << Seg(<<1>>, Bold, 0) >>,
       << Seg(<<1>>, NoWeight, 0), Seg(<<1>>, Bold, 0) >>,
       << Seg(<<2>>, NoWeight, 1) >>,
       << Seg(<<1, 2>>, NoWeight, 0) >>,
       << Seg(<<1, 3, 2>>, NoWeight, 0) >>,
       << Seg(<<5, 1>>, NoWeight, 1) >>,
       << Seg(<<4>>, NoWeight, 0) >>,
       << Seg(<<3>>, NoWeight, 0) >>,
       << >>,
       << Seg(<<1, 2, LineBreak, 1>>, NoWeight, 1) >>,
       << Underlined(Seg(<<1, 1>>, NoWeight, 0)) >>,
       << Underlined(Seg(<<1, 2>>, NoWeight, 0)), Seg(<<1>>, NoWeight, 0),
          Underlined(Seg(<<2>>, NoWeight, 0)) >> >>

\* The texts another system writes while the model runs
TextIds == 1..4

\* The texts an entity can be spawned with
SpawnTextIds == 1..Len(Texts)

VARIABLES
    queue,        \* lock.queue: (atlas id, atlas, image) items
    fontChanged,  \* font_system.is_changed()
    atlases,      \* Assets<TextAtlas>
    images,       \* Assets<Image>
    nextImage,    \* next id Assets<Image>::add hands out
    meshes,       \* Assets<Mesh>
    nextMesh,     \* next id Assets<Mesh>::add hands out
    text,         \* Text3d of each entity (index into Texts)
    weight,       \* Text3dStyling.weight of each entity
    changed,      \* components of each entity changed since the system last ran
    atlasOf,      \* TextAtlasHandle of each entity
    mesh2d,       \* Option<Mesh2d> of each entity
    mesh3d,       \* Option<Mesh3d> of each entity
    output,       \* Text3dDimensionOut of each entity
    pc,           \* position of text_render
    cur,          \* entity the query iteration is at
    redraw,       \* local `redraw`
    tessCount,    \* history: calls of tess_glyph so far
    stale,        \* history: the entity's input changed and its mesh was not rebuilt since
    events,       \* history: writes of other systems and of the producer so far
    passQueue,    \* history: the queue as it was when this pass took the lock
    path,         \* history: what this pass did with each entity so far
    passCached,   \* history: the glyph identities each atlas cached when this pass began
    draw_requests, \* local `draw_requests`, kept from one run of the system to the next
    pending       \* history: most requests left in the buffer when a glyph was done

vars == << queue, fontChanged, atlases, images, nextImage, meshes,
           nextMesh, text, weight, changed, atlasOf, mesh2d, mesh3d, output,
           pc, cur, redraw, tessCount, stale, events, passQueue, path,
           passCached, draw_requests, pending >>

(* ----------------------------- data model ----------------------------- *)
\* GlyphEntry: the key of TextAtlas.glyphs
GlyphEntry(font, glyph_id, size, w, join, stroke) ==
    [font |-> font, glyph_id |-> glyph_id, size |-> size, weight |-> w,
     join |-> join, stroke |-> stroke]

\* cosmic_text::LayoutGlyph, as far as render.rs reads it
\* The font the shaper took the glyph from
FontOf(glyph_id) == IF glyph_id = 5 THEN 2 ELSE 1

\* LayoutGlyph.w: the advance of the glyph
Advance(glyph_id) == IF glyph_id = 4 THEN 0 ELSE 1

LayoutGlyph(glyph_id, metadata) ==
    [font_id |-> FontOf(glyph_id), glyph_id |-> glyph_id, font_size |-> 1,
     metadata |-> metadata, x |-> 0, w |-> Advance(glyph_id)]

\* Text3dStyling.stroke_join
StrokeJoin == "round"

EmptyGlyphs == [k \in {} |-> 0]

\* TextAtlas: the image handle, the glyph cache and the packer's pointer
Atlas(img, glyphs, ptr) ==
    [present |-> TRUE, image |-> img, glyphs |-> glyphs, pointer |-> ptr]

NoAtlas == [present |-> FALSE, image |-> DefaultId, glyphs |-> EmptyGlyphs,
            pointer |-> <<0, 0>>]

Image(w, h) == [present |-> TRUE, w |-> w, h |-> h]

NoImage == [present |-> FALSE, w |-> 0, h |-> 0]

\* TextAtlas::empty_image(width, height)
EmptyImage(w, h) == Image(w, h)

\* default_mesh(): every attribute and the index buffer empty
DefaultMesh == [present |-> TRUE, quads |-> << >>]

NoMesh == [present |-> FALSE, quads |-> << >>]

(* --------------------------- exact fractions -------------------------- *)
RECURSIVE Gcd(_, _)
Gcd(a, b) == IF b = 0 THEN a ELSE Gcd(b, a % b)

\* n/d in lowest terms; n/0 stands for the non-finite result of a division by 0
Frac(n, d) ==
    IF d = 0 THEN <<n, 0>>
    ELSE IF n = 0 THEN <<0, 1>>
    ELSE LET g == Gcd(n, d) IN <<n \div g, d \div g>>

FracMul(f, n, d) == Frac(f[1] * n, f[2] * d)

(* ------------------------ tess_glyph (tess.rs) ------------------------ *)
\* Side of the raster patch of one glyph, in atlas cells
PatchSize == 1

RECURSIVE GrowTo(_, _)
GrowTo(h, need) == IF need <= h THEN h ELSE GrowTo(IF h = 0 THEN 1 ELSE 2 * h, need)

\* Shelf packer: left to right along the row, a new row when the row would
\* overflow the width, a taller image when the row would overflow the height;
\* stores entry -> placement in the cache.
\* The x of the drawing offset of a placement: where the ink of the glyph begins,
\* measured from the pen position
DrawOffset(glyph_id) == IF glyph_id = 2 THEN 1 ELSE 0

TessGlyph(atlas, image, entry) ==
    LET wrap == atlas.pointer[1] + PatchSize > image.w
        x == IF wrap THEN 0 ELSE atlas.pointer[1]
        y == IF wrap THEN atlas.pointer[2] + PatchSize ELSE atlas.pointer[2]
        rect == <<x, y, x + PatchSize, y + PatchSize>>
        placement == [rect |-> rect, offset |-> <<DrawOffset(entry.glyph_id), 0>>]
        keys == DOMAIN atlas.glyphs \cup {entry}
    IN [atlas |-> [atlas EXCEPT
                     !.glyphs = [k \in keys |-> IF k = entry THEN placement
                                                ELSE atlas.glyphs[k]],
                     !.pointer = <<x + PatchSize, y>>],
        image |-> [image EXCEPT !.h = GrowTo(image.h, y + PatchSize)],
        result |-> <<placement>>]

(* ------------------- get_atlas_rect and cache_glyph ------------------- *)
\* Face::parse succeeds for the one font of the model
FaceParses(font_id) == font_id = 1

\* Variant: every glyph is taken to have an outline
HasOutlineAlways(glyph_id) == TRUE

\* face.outline_glyph: glyph 3 is whitespace and has no outline
HasOutline(glyph_id) == glyph_id # 3

\* The key get_atlas_rect looks up
LookupEntry(styling_weight, glyph, stroke) ==
    GlyphEntry(glyph.font_id, glyph.glyph_id, glyph.font_size, styling_weight,
               StrokeJoin, stroke)

\* The key cache_glyph builds and hands to tess_glyph
CacheEntry(glyph, stroke, join, w) ==
    GlyphEntry(glyph.font_id, glyph.glyph_id, glyph.font_size, w, join, stroke)

\* attrs.weight.unwrap_or(styling.weight)
EffectiveWeight(attrs, styling_weight) ==
    IF attrs.weight = NoWeight THEN styling_weight ELSE attrs.weight

\* cache_glyph: result is << >> (None) or <<placement>>; tess counts the call of
\* tess_glyph
CacheGlyph(atlas, image, glyph, stroke, join, w) ==
    IF ~HasOutline(glyph.glyph_id)
    THEN [atlas |-> atlas, image |-> image, result |-> << >>, tess |-> 0]
    ELSE LET t == TessGlyph(atlas, image, CacheEntry(glyph, stroke, join, w))
         IN [atlas |-> t.atlas, image |-> t.image, result |-> t.result, tess |-> 1]

GetAtlasRect(styling_weight, atlas, image, glyph, attrs, stroke) ==
    LET key == LookupEntry(styling_weight, glyph, stroke)
    IN IF key \in DOMAIN atlas.glyphs
       THEN [atlas |-> atlas, image |-> image, result |-> <<atlas.glyphs[key]>>,
             tess |-> 0]
       ELSE IF ~FaceParses(glyph.font_id)
       THEN [atlas |-> atlas, image |-> image, result |-> << >>, tess |-> 0]
       ELSE CacheGlyph(atlas, image, glyph, stroke, StrokeJoin,
                       EffectiveWeight(attrs, styling_weight))

(* ------------------- shaping and draw requests ------------------------ *)
RECURSIVE SegGlyphs(_, _)
SegGlyphs(gs, idx) ==
    IF gs = << >> THEN << >>
    ELSE <<LayoutGlyph(Head(gs), idx)>> \o SegGlyphs(Tail(gs), idx)

RECURSIVE LayoutFrom(_, _)
LayoutFrom(segments, idx) ==
    IF idx > Len(segments) THEN << >>
    ELSE SegGlyphs(segments[idx].glyphs, idx) \o LayoutFrom(segments, idx + 1)

\* buffer.layout_runs(): the glyphs of the text in order, each carrying the index
\* of its segment as metadata
LayoutGlyphs(segments) == LayoutFrom(segments, 1)

\* run.line_w: the advances of the line's glyphs
LineW(run) == IF run = << >> THEN 0 ELSE run[Len(run)].x + run[Len(run)].w

\* The glyphs broken into lines, each glyph at the pen position of its line
RECURSIVE SplitRuns(_, _)
SplitRuns(glyphs, run) ==
    IF glyphs = << >> THEN <<run>>
    ELSE IF Head(glyphs).glyph_id = LineBreak
    THEN <<run>> \o SplitRuns(Tail(glyphs), << >>)
    ELSE CHOOSE runs \in
            { SplitRuns(Tail(glyphs), longer) :
                longer \in {Append(run, [Head(glyphs) EXCEPT !.x = LineW(run)])} } : TRUE

\* buffer.layout_runs(): one run per visual line; a text without glyphs still
\* has one (empty) line
LayoutRuns(segments) == SplitRuns(LayoutGlyphs(segments), << >>)

\* styling.fill_draw_requests: a fill request, a stroke request on the layer
\* behind it when the style has a stroke, and a line request when the style has
\* an underline
FillDrawRequests(attrs) ==
    <<[request |-> "Glyph", stroke |-> 0, sort |-> 1]>>
    \o (IF attrs.stroke > 0
        THEN <<[request |-> "Glyph", stroke |-> attrs.stroke, sort |-> 0]>>
        ELSE << >>)
    \o (IF attrs.underline THEN <<[request |-> "Line", stroke |-> 0, sort |-> 1]>>
        ELSE << >>)

(* ------------------------- decoration lines --------------------------- *)
\* LineRun::default(): a run that contains no glyph
NoRun == [min |-> 0, max |-> 0]

\* LineRun::contains: the glyph lies within the run
RunContains(line, glyph) ==
    line.min < line.max /\ line.min <= glyph.x /\ glyph.x + glyph.w <= line.max

\* Where the underlined glyphs that follow one another from glyph i on end
RECURSIVE RunEnd(_, _, _)
RunEnd(glyphs, segments, i) ==
    IF i <= Len(glyphs) /\ segments[glyphs[i].metadata].underline
    THEN RunEnd(glyphs, segments, i + 1)
    ELSE glyphs[i - 1].x + glyphs[i - 1].w

\* mode.new_run: the run that begins at glyph_index
NewRun(glyph_index, glyphs, segments) ==
    [min |-> glyphs[glyph_index].x, max |-> RunEnd(glyphs, segments, glyph_index + 1)]

\* mode.boundary: the span of the glyph at glyph_index
Boundary(glyphs, glyph_index) ==
    <<glyphs[glyph_index].x, glyphs[glyph_index].x + glyphs[glyph_index].w>>

\* line.uv_range: the pieces of the span (min, max) to draw; one piece, drawn
\* with the whole line texture
UvRange(line, min, max) == << <<min, max>> >>

\* mode.get_line_rect: None for a span without extent
GetLineRect(min, max) == IF min < max THEN << <<min, max>> >> ELSE << >>

\* The glyph id under which the texture of a line is cached
LineGlyph == 6

(* ----------------------------- mesh_util ------------------------------ *)
\* cache_rectangle: one quad whose UV0 is the atlas rectangle, in pixels, with
\* its layer and insertion index. h: what the quad was drawn for (history)
CacheRectangle(quads, rect, layer, real_index, h) ==
    Append(quads, [pixel |-> rect,
                   uv0 |-> <<Frac(rect[1], 1), Frac(rect[2], 1),
                             Frac(rect[3], 1), Frac(rect[4], 1)>>,
                   layer |-> layer, index |-> real_index,
                   kind |-> "glyph", glyph |-> h.glyph, from |-> h.from,
                   span |-> h.span])

\* cache_rectangle2: the same for the rectangle of a decoration line
CacheRectangle2(quads, rect, layer, real_index, h) ==
    Append(quads, [pixel |-> rect,
                   uv0 |-> <<Frac(rect[1], 1), Frac(rect[2], 1),
                             Frac(rect[3], 1), Frac(rect[4], 1)>>,
                   layer |-> layer, index |-> real_index,
                   kind |-> "line", glyph |-> h.glyph, from |-> h.from,
                   span |-> h.span])

\* The order of the quads in the index buffer: by layer, then by insertion index
Before(a, b) == a.layer < b.layer \/ (a.layer = b.layer /\ a.index < b.index)

RECURSIVE InsertQuad(_, _)
InsertQuad(sorted, q) ==
    IF sorted = << >> THEN <<q>>
    ELSE IF Before(q, sorted[Len(sorted)])
    THEN CHOOSE out \in
            { Append(InsertQuad(front, q), sorted[Len(sorted)]) :
                front \in {SubSeq(sorted, 1, Len(sorted) - 1)} } : TRUE
    ELSE Append(sorted, q)

\* The sort of the collected quads, once per entity; stable
RECURSIVE SortQuads(_)
SortQuads(quads) ==
    IF quads = << >> THEN << >>
    ELSE CHOOSE out \in
            { InsertQuad(sorted, quads[Len(quads)]) :
                sorted \in {SortQuads(SubSeq(quads, 1, Len(quads) - 1))} } : TRUE

\* pixel_to_uv: every UV0 coordinate divided by the image's dimensions
PixelToUv(quads, image) ==
    [i \in DOMAIN quads |->
        [quads[i] EXCEPT !.uv0 = <<FracMul(@[1], 1, image.w), FracMul(@[2], 1, image.h),
                                   FracMul(@[3], 1, image.w), FracMul(@[4], 1, image.h)>>]]

(* ------------------------------ get_mesh ------------------------------ *)
\* ok: a mesh was returned; id: its id; m2, m3, store, next: the handles, the
\* mesh storage and its allocator afterwards
GetMesh(m2, m3, store, next) ==
    LET id0 == IF m2 # NoComponent THEN m2 ELSE m3
    IN IF id0 = NoComponent
       THEN [ok |-> FALSE, id |-> DefaultId, m2 |-> m2, m3 |-> m3, store |-> store,
             next |-> next]
       ELSE IF id0 = DefaultId
       THEN [ok |-> TRUE, id |-> next,
             m2 |-> IF m2 # NoComponent THEN next ELSE m2,
             m3 |-> IF m3 # NoComponent THEN next ELSE m3,
             store |-> [store EXCEPT ![next] = DefaultMesh],
             next |-> next + 1]
       ELSE [ok |-> store[id0].present, id |-> id0, m2 |-> m2, m3 |-> m3,
             store |-> store, next |-> next]

(* ------------------------- text_render, parts ------------------------- *)
\* Lines 102-107: an atlas whose image handle is unbound or whose image is not in
\* storage gets a new blank image of the default dimensions
NeedsImage(atlas, imgs) ==
    atlas.image = DefaultId \/ ~imgs[atlas.image].present

\* Variant: the change detection is skipped, every entity is rebuilt
UnchangedNever(e) == FALSE

\* Variant: `redraw` is not looked at
UnchangedIgnoresRedraw(e) ==
    /\ "text" \notin changed[e]
    /\ "bounds" \notin changed[e]
    /\ "styling" \notin changed[e]
    /\ "segment" \notin changed[e]

\* Lines 114-124: nothing this entity is built from changed
Unchanged(e) ==
    /\ ~redraw
    /\ "text" \notin changed[e]
    /\ "bounds" \notin changed[e]
    /\ "styling" \notin changed[e]
    /\ "segment" \notin changed[e]

\* Variant: the factor is new / old
RescaleUv0Inverted(quads, old, new) ==
    [i \in DOMAIN quads |->
        [quads[i] EXCEPT !.uv0 = <<FracMul(@[1], new[1], old[1]),
                                   FracMul(@[2], new[2], old[2]),
                                   FracMul(@[3], new[1], old[1]),
                                   FracMul(@[4], new[2], old[2])>>]]

\* Lines 142-145: every UV0 coordinate times old / new, component-wise
RescaleUv0(quads, old, new) ==
    [i \in DOMAIN quads |->
        [quads[i] EXCEPT !.uv0 = <<FracMul(@[1], old[1], new[1]),
                                   FracMul(@[2], old[2], new[2]),
                                   FracMul(@[3], old[1], new[1]),
                                   FracMul(@[4], old[2], new[2])>>]]

\* mode.get_atlas_rect: the placement of the line texture, rendered into the
\* atlas when it is not cached
LineAtlasRect(styling_weight, atlas, image, glyph, stroke) ==
    LET key == GlyphEntry(glyph.font_id, LineGlyph, glyph.font_size, styling_weight,
                          StrokeJoin, stroke)
    IN IF key \in DOMAIN atlas.glyphs
       THEN [atlas |-> atlas, image |-> image, result |-> <<atlas.glyphs[key]>>,
             tess |-> 0]
       ELSE LET t == TessGlyph(atlas, image, key)
            IN [atlas |-> t.atlas, image |-> t.image, result |-> t.result, tess |-> 1]

\* f32::MAX, and f32::MIN as its negative
F32Max == 1000000

Min(a, b) == IF a < b THEN a ELSE b

Max(a, b) == IF a < b THEN b ELSE a

\* Lines 226-262: a request to draw the glyph, filled or stroked
DrawGlyph(req, st, styling_weight, ga) ==
    CHOOSE out \in
      { IF r.result = << >>
        THEN [st EXCEPT !.atlas = r.atlas, !.image = r.image, !.tess = @ + r.tess]
        ELSE LET dw == ga.glyph.x + r.result[1].offset[1]
             IN [st EXCEPT !.atlas = r.atlas, !.image = r.image, !.tess = @ + r.tess,
                           !.min_x = Min(@, dw),
                           !.max_x = Max(@, dw + ga.glyph.w),
                           !.quads = CacheRectangle(@, r.result[1].rect, req.sort,
                                                    ga.real_index,
                                                    [glyph |-> ga.seq, from |-> req.from,
                                                     span |-> <<dw, dw + ga.glyph.w>>])] :
        r \in {GetAtlasRect(styling_weight, st.atlas, st.image, ga.glyph, ga.attrs,
                            req.stroke)} } : TRUE

\* The rectangles of the pieces, in order
RECURSIVE DrawPieces(_, _, _, _, _)
DrawPieces(pieces, quads, rect, req, ga) ==
    IF pieces = << >> THEN quads
    ELSE CHOOSE out \in
           { DrawPieces(Tail(pieces), more, rect, req, ga) :
               more \in { LET piece == Head(pieces)
                              line_rect == GetLineRect(piece[1], piece[2])
                          IN IF line_rect = << >> THEN quads
                             ELSE CacheRectangle2(quads, rect, req.sort, ga.real_index,
                                                  [glyph |-> ga.seq, from |-> req.from,
                                                   span |-> line_rect[1]]) } } : TRUE

\* Lines 263-329: a request to draw the decoration line under the glyph
DrawLine(req, st, styling_weight, ga) ==
    CHOOSE out \in
      { LET line == IF RunContains(st.underline_run, ga.glyph) THEN st.underline_run
                    ELSE NewRun(ga.glyph_index, ga.run, ga.segments)
            b == Boundary(ga.run, ga.glyph_index)
        IN [st EXCEPT !.underline_run = line,
                      !.atlas = r.atlas, !.image = r.image, !.tess = @ + r.tess,
                      !.quads = IF r.result = << >> THEN @
                                ELSE DrawPieces(UvRange(line, b[1], b[2]), @,
                                                r.result[1].rect, req, ga)] :
        r \in {LineAtlasRect(styling_weight, st.atlas, st.image, ga.glyph,
                             req.stroke)} } : TRUE

\* Lines 218-331: the draw requests of one glyph, in order
RECURSIVE DrawRequests(_, _, _, _)
DrawRequests(reqs, st, styling_weight, ga) ==
    IF reqs = << >> THEN st
    ELSE CHOOSE out \in
           { DrawRequests(Tail(reqs), st1, styling_weight, ga) :
               st1 \in { IF Head(reqs).request = "Glyph"
                         THEN DrawGlyph(Head(reqs), st, styling_weight, ga)
                         ELSE DrawLine(Head(reqs), st, styling_weight, ga) } } : TRUE

\* The requests fill_draw_requests pushed, each with the glyph it was pushed for
\* (history)
Pushed(reqs, seq) ==
    [i \in DOMAIN reqs |->
        [request |-> reqs[i].request, stroke |-> reqs[i].stroke, sort |-> reqs[i].sort,
         from |-> seq]]

\* Variant: the requests are iterated and stay in the buffer
DrainedNothing(buffer) == buffer

\* draw_requests.drain(..): the buffer once the loop over it is over
Drained(buffer) == << >>

\* Lines 207-333: the glyphs of one line from glyph_index on, in order
RECURSIVE DrawGlyphs(_, _, _, _, _)
DrawGlyphs(glyph_index, run, segments, st, styling_weight) ==
    IF glyph_index > Len(run) THEN st
    ELSE CHOOSE out \in
           { DrawGlyphs(glyph_index + 1, run, segments,
                        [st1 EXCEPT !.buffer = Drained(filled),
                                    !.pending = Max(@, Len(Drained(filled))),
                                    !.real_index = @ + 1,
                                    !.seq = st.seq + 1],
                        styling_weight) :
               filled \in { st.buffer
                            \o Pushed(FillDrawRequests(segments[run[glyph_index].metadata]),
                                      st.seq + 1) },
               st1 \in { DrawRequests(
                           st.buffer
                           \o Pushed(FillDrawRequests(segments[run[glyph_index].metadata]),
                                     st.seq + 1),
                           st, styling_weight,
                           [glyph |-> run[glyph_index],
                            attrs |-> segments[run[glyph_index].metadata],
                            glyph_index |-> glyph_index, run |-> run,
                            segments |-> segments, real_index |-> st.real_index,
                            seq |-> st.seq + 1]) } } : TRUE

\* Variant: the insertion index begins anew with every line
NextLineIndexReset(real_index) == 0

\* Line 194 is outside the loop over the lines: the insertion index of the first
\* glyph of a line continues the one of the line before
NextLineIndex(real_index) == real_index

\* Lines 202-335: the lines of the layout, in order
RECURSIVE DrawRuns(_, _, _, _)
DrawRuns(runs, segments, st, styling_weight) ==
    IF runs = << >> THEN st
    ELSE CHOOSE out \in
           { DrawRuns(Tail(runs), segments, st2, styling_weight) :
               st2 \in { DrawGlyphs(1, Head(runs), segments,
                                    [st EXCEPT !.underline_run = NoRun,
                                               !.height = @ + 1,
                                               !.real_index = NextLineIndex(@)],
                                    styling_weight) } } : TRUE

\* Lines 337-342: the width of the bounding box
BoxWidth(min_x, max_x) ==
    IF max_x < min_x THEN <<1, 1000>> ELSE Frac(max_x - min_x, 1)

\* Lines 151-358 for one entity, the mesh already obtained
Rebuild(e, atlas, image) ==
    CHOOSE out \in
    { [atlas |-> st.atlas, image |-> st.image, tess |-> st.tess,
        dimension |-> <<BoxWidth(st.min_x, st.max_x), st.height>>,
        atlas_dimension |-> <<st.image.w, st.image.h>>,
        quads |-> PixelToUv(SortQuads(st.quads), st.image),
        buffer |-> st.buffer, pending |-> st.pending] :
      st \in { DrawRuns(LayoutRuns(Texts[text[e]]), Texts[text[e]],
                       [atlas |-> atlas, image |-> image, quads |-> << >>, tess |-> 0,
                        min_x |-> F32Max, max_x |-> 0 - F32Max, height |-> 0,
                        real_index |-> 0, seq |-> 0, underline_run |-> NoRun,
                        buffer |-> draw_requests, pending |-> 0],
                       weight[e]) } } : TRUE

(* --------------------------- storage bounds --------------------------- *)
\* Images 1 and 2 are the ones the asynchronous producer renders into;
\* Assets<Image>::add hands out the ids from FirstAddedImage on.
FirstAddedImage == 3
ImageIds == 1..(FirstAddedImage + MaxEvents)
MeshIds == 1..(NumEntities + MaxEvents)

\* Width and height of an image the asynchronous producer renders
PrewarmW == 4
PrewarmH == 2

\* What the asynchronous producer enqueues for atlas a: a complete atlas holding
\* glyph g (regular weight, filled) and the image it was rendered into
QueueItem(a, g) ==
    [id |-> a,
     atlas |-> Atlas(a,
                     [k \in {GlyphEntry(1, g, 1, Normal, StrokeJoin, 0)} |->
                         [rect |-> <<0, 0, PatchSize, PatchSize>>,
                          offset |-> <<DrawOffset(g), 0>>]],
                     <<PatchSize, 0>>),
     image |-> Image(PrewarmW, PrewarmH)]

\* The atlas handles the entities carry: all entities on atlas 1, or entity 1 on
\* atlas 2, which exists only once the producer delivered it
AtlasAssignments ==
    { [e \in Entities |-> 1], [e \in Entities |-> IF e = 1 THEN 2 ELSE 1] }

(* -------------------------------- Init -------------------------------- *)
\* The stores, the queue and the system before the first run
InitWorld ==
    /\ queue = << >>
    /\ fontChanged = TRUE
    /\ atlases = [a \in AtlasIds |->
                    IF a = 1 THEN Atlas(DefaultId, EmptyGlyphs, <<0, 0>>) ELSE NoAtlas]
    /\ images = [i \in ImageIds |-> NoImage]
    /\ nextImage = FirstAddedImage
    /\ meshes = [m \in MeshIds |-> NoMesh]
    /\ nextMesh = 1
    /\ weight = [e \in Entities |-> Normal]
    /\ changed = [e \in Entities |-> {"text", "bounds", "styling"}]
    /\ mesh2d = [e \in Entities |-> IF e % 2 = 1 THEN DefaultId ELSE NoComponent]
    /\ mesh3d = [e \in Entities |-> IF e % 2 = 0 THEN DefaultId ELSE NoComponent]
    /\ output = [e \in Entities |->
                   [atlas_dimension |-> <<0, 0>>, dimension |-> <<Frac(0, 1), 0>>]]
    /\ pc = "idle"
    /\ cur = 1
    /\ redraw = FALSE
    /\ tessCount = 0
    /\ stale = [e \in Entities |-> TRUE]
    /\ events = 0
    /\ passQueue = << >>
    /\ path = [e \in Entities |-> ""]
    /\ passCached = [a \in AtlasIds |-> {}]
    /\ draw_requests = << >>
    /\ pending = 0

Init ==
    /\ InitWorld
    /\ text = [e \in Entities |-> 1]
    /\ atlasOf \in AtlasAssignments

\* The entities spawned with any of the texts; a further entity spawns with
\* text 1
SpawnEntities == Entities \cap {1, 2}

\* Entities spawned with the texts, all on the atlas that exists
DrawInit ==
    /\ InitWorld
    /\ text \in [Entities -> SpawnTextIds]
    /\ \A e \in Entities \ SpawnEntities : text[e] = 1
    /\ atlasOf = [e \in Entities |-> 1]

(* ------------------- the world between two passes --------------------- *)
storeVars == << atlases, images, nextImage, meshes, nextMesh >>
entityVars == << text, weight, atlasOf, mesh2d, mesh3d, output >>
passVars == << pc, cur, redraw, passQueue, path, passCached >>
drawVars == << draw_requests, pending >>

\* Another system writes the entity's Text3d
ChangeText(e, t) ==
    /\ pc = "idle" /\ events < MaxEvents
    /\ t # text[e]
    /\ text' = [text EXCEPT ![e] = t]
    /\ changed' = [changed EXCEPT ![e] = @ \cup {"text"}]
    /\ stale' = [stale EXCEPT ![e] = TRUE]
    /\ events' = events + 1
    /\ UNCHANGED << queue, fontChanged, storeVars, weight, atlasOf, mesh2d, mesh3d,
                    output, passVars, tessCount, drawVars >>

\* Another system writes the entity's Text3dStyling
ChangeStyling(e, w) ==
    /\ pc = "idle" /\ events < MaxEvents
    /\ w # weight[e]
    /\ weight' = [weight EXCEPT ![e] = w]
    /\ changed' = [changed EXCEPT ![e] = @ \cup {"styling"}]
    /\ stale' = [stale EXCEPT ![e] = TRUE]
    /\ events' = events + 1
    /\ UNCHANGED << queue, fontChanged, storeVars, text, atlasOf, mesh2d, mesh3d,
                    output, passVars, tessCount, drawVars >>

\* Another system writes the entity's Text3dBounds, or a FetchedTextSegment the
\* text extracts from
Touch(e, c) ==
    /\ pc = "idle" /\ events < MaxEvents
    /\ c \in {"bounds", "segment"}
    /\ c \notin changed[e]
    /\ changed' = [changed EXCEPT ![e] = @ \cup {c}]
    /\ stale' = [stale EXCEPT ![e] = TRUE]
    /\ events' = events + 1
    /\ UNCHANGED << queue, fontChanged, storeVars, entityVars, passVars, tessCount, drawVars >>

\* The TextRenderer resource is written (fonts were loaded)
TouchFontSystem ==
    /\ pc = "idle" /\ events < MaxEvents
    /\ ~fontChanged
    /\ fontChanged' = TRUE
    /\ events' = events + 1
    /\ UNCHANGED << queue, storeVars, entityVars, changed, passVars, tessCount,
                    stale, drawVars >>

\* An image is removed from Assets<Image>
RemoveImage(i) ==
    /\ pc = "idle" /\ events < MaxEvents
    /\ images[i].present
    /\ images' = [images EXCEPT ![i] = NoImage]
    /\ events' = events + 1
    /\ UNCHANGED << queue, fontChanged, atlases, nextImage, meshes, nextMesh,
                    entityVars, changed, passVars, tessCount, stale, drawVars >>

\* Another system gives the entity the mesh component it does not have yet, with
\* a handle that is not bound
InsertMesh(e, kind) ==
    /\ pc = "idle" /\ events < MaxEvents
    /\ IF kind = "2d"
       THEN /\ mesh2d[e] = NoComponent
            /\ mesh2d' = [mesh2d EXCEPT ![e] = DefaultId]
            /\ UNCHANGED mesh3d
       ELSE /\ mesh3d[e] = NoComponent
            /\ mesh3d' = [mesh3d EXCEPT ![e] = DefaultId]
            /\ UNCHANGED mesh2d
    /\ events' = events + 1
    /\ UNCHANGED << queue, fontChanged, storeVars, text, weight, atlasOf, output,
                    changed, passVars, tessCount, stale, drawVars >>

\* The asynchronous producer takes the mutex, pushes an item and lets go
ProducerPush(a, g) ==
    /\ pc = "idle" /\ events < MaxEvents
    /\ Len(queue) < MaxQueue
    /\ queue' = Append(queue, QueueItem(a, g))
    /\ events' = events + 1
    /\ UNCHANGED << fontChanged, storeVars, entityVars, changed, passVars, tessCount,
                    stale, drawVars >>

(* ---------------------------- text_render ----------------------------- *)
\* The system ran: what changed before this run no longer counts as changed
\* in the next one
TicksConsumed ==
    /\ changed' = [e \in Entities |-> {}]
    /\ fontChanged' = FALSE

\* Lines 80-86: try_lock. Acquired: redraw starts as font_system.is_changed() and
\* the drain begins. Not acquired (the producer holds the mutex): the else branch.
TryLock(acquired) ==
    /\ pc = "idle"
    /\ pc' = IF acquired THEN "drain" ELSE "skipped"
    /\ redraw' = IF acquired THEN fontChanged ELSE FALSE
    /\ passQueue' = IF acquired THEN queue ELSE << >>
    /\ passCached' = [a \in AtlasIds |-> IF acquired THEN DOMAIN atlases[a].glyphs ELSE {}]
    /\ UNCHANGED << queue, fontChanged, storeVars, entityVars, changed, cur, path,
                    tessCount, stale, events, drawVars >>

\* Variant: lock() instead of try_lock(): the system waits and goes on
PassSkippedWaits ==
    /\ pc = "skipped"
    /\ pc' = "drain"
    /\ redraw' = fontChanged
    /\ passQueue' = queue
    /\ UNCHANGED << queue, fontChanged, storeVars, entityVars, changed, cur, path,
                    passCached, tessCount, stale, events, drawVars >>

\* Lines 80-82: the else branch of try_lock returns from the system
PassSkipped ==
    /\ pc = "skipped"
    /\ pc' = "idle"
    /\ TicksConsumed
    /\ UNCHANGED << queue, storeVars, entityVars, cur, redraw, passQueue, path,
                    passCached, tessCount, stale, events, drawVars >>

\* The item the drain takes next
DrainNext(q) == Head(q)

DrainRest(q) == Tail(q)

\* Lines 88-93: one item of the queue is inserted into the stores
DrainItem ==
    /\ pc = "drain"
    /\ queue # << >>
    /\ LET item == DrainNext(queue)
       IN /\ images' = [images EXCEPT ![item.atlas.image] = item.image]
          /\ atlases' = [atlases EXCEPT ![item.id] = item.atlas]
    /\ queue' = DrainRest(queue)
    /\ redraw' = TRUE
    /\ UNCHANGED << fontChanged, nextImage, meshes, nextMesh, entityVars, changed, pc,
                    cur, passQueue, path, passCached, tessCount, stale, events, drawVars >>

\* Variant: the loop takes one item at most
DrainFinishedAfterOne == Len(queue) < Len(passQueue) \/ queue = << >>

\* Whether the per-entity loop may begin
DrainFinished == queue = << >>

\* Lines 94-96: the drain is over, the query iteration begins
DrainDone ==
    /\ pc = "drain"
    /\ DrainFinished
    /\ pc' = "entity"
    /\ cur' = 1
    /\ UNCHANGED << queue, fontChanged, storeVars, entityVars, changed, redraw,
                    passQueue, path, passCached, tessCount, stale, events, drawVars >>

\* Line 98: the entity's atlas is in Assets<TextAtlas>
Resolved(e) == atlases[atlasOf[e]].present

\* The query iteration moves on: to the next entity, or out of the loop
Continue ==
    IF cur = NumEntities THEN pc' = "done" /\ cur' = cur
    ELSE pc' = "entity" /\ cur' = cur + 1

\* Lines 98-100: what the loop does when the atlas cannot be resolved
Unresolved == pc' = "done" /\ cur' = cur

\* Lines 102-111: the atlas with an image that is in storage
WithImage(e) ==
    LET atlas == atlases[atlasOf[e]]
    IN IF NeedsImage(atlas, images)
       THEN [atlas |-> [atlas EXCEPT !.image = nextImage],
             images |-> [images EXCEPT
                           ![nextImage] = EmptyImage(DefaultAtlasW, DefaultAtlasH)],
             next |-> nextImage + 1]
       ELSE [atlas |-> atlas, images |-> images, next |-> nextImage]

EntityUnresolved ==
    /\ pc = "entity"
    /\ ~Resolved(cur)
    /\ Unresolved
    /\ path' = [path EXCEPT ![cur] = "unresolved"]
    /\ UNCHANGED << queue, fontChanged, storeVars, entityVars, changed, redraw,
                    passQueue, passCached, tessCount, stale, events, drawVars >>

\* Lines 124-148: the entity is unchanged; its UV0 is rescaled when the atlas
\* image has other dimensions than the ones recorded
EntityUnchanged ==
    /\ pc = "entity"
    /\ Resolved(cur)
    /\ Unchanged(cur)
    /\ LET s == WithImage(cur)
           image == s.images[s.atlas.image]
           new_dimension == <<image.w, image.h>>
           gm == GetMesh(mesh2d[cur], mesh3d[cur], meshes, nextMesh)
       IN /\ atlases' = [atlases EXCEPT ![atlasOf[cur]] = s.atlas]
          /\ images' = s.images
          /\ nextImage' = s.next
          /\ IF output[cur].atlas_dimension = new_dimension \/ ~gm.ok
             THEN /\ path' = [path EXCEPT ![cur] = "kept"]
                  /\ UNCHANGED << meshes, nextMesh, mesh2d, mesh3d, output >>
             ELSE /\ path' = [path EXCEPT ![cur] = "rescaled"]
                  /\ meshes' = [gm.store EXCEPT ![gm.id].quads =
                                   RescaleUv0(@, output[cur].atlas_dimension,
                                              new_dimension)]
                  /\ nextMesh' = gm.next
                  /\ mesh2d' = [mesh2d EXCEPT ![cur] = gm.m2]
                  /\ mesh3d' = [mesh3d EXCEPT ![cur] = gm.m3]
                  /\ output' = [output EXCEPT ![cur].atlas_dimension = new_dimension]
    /\ Continue
    /\ UNCHANGED << queue, fontChanged, text, weight, atlasOf, changed, redraw,
                    passQueue, passCached, tessCount, stale, events, drawVars >>

\* Lines 151-358: the entity's mesh is built anew
EntityRebuild ==
    /\ pc = "entity"
    /\ Resolved(cur)
    /\ ~Unchanged(cur)
    /\ LET s == WithImage(cur)
           gm == GetMesh(mesh2d[cur], mesh3d[cur], meshes, nextMesh)
           r == Rebuild(cur, s.atlas, s.images[s.atlas.image])
       IN /\ nextImage' = s.next
          /\ IF ~gm.ok
             THEN /\ atlases' = [atlases EXCEPT ![atlasOf[cur]] = s.atlas]
                  /\ images' = s.images
                  /\ path' = [path EXCEPT ![cur] = "nomesh"]
                  /\ UNCHANGED << meshes, nextMesh, mesh2d, mesh3d, output, tessCount,
                                  stale, drawVars >>
             ELSE /\ path' = [path EXCEPT ![cur] = "rebuilt"]
                  /\ atlases' = [atlases EXCEPT ![atlasOf[cur]] = r.atlas]
                  /\ images' = [s.images EXCEPT ![s.atlas.image] = r.image]
                  /\ meshes' = [gm.store EXCEPT ![gm.id].quads = r.quads]
                  /\ nextMesh' = gm.next
                  /\ mesh2d' = [mesh2d EXCEPT ![cur] = gm.m2]
                  /\ mesh3d' = [mesh3d EXCEPT ![cur] = gm.m3]
                  /\ output' = [output EXCEPT ![cur].dimension = r.dimension,
                                               ![cur].atlas_dimension = r.atlas_dimension]
                  /\ draw_requests' = r.buffer
                  /\ pending' = Max(pending, r.pending)
                  /\ tessCount' = tessCount + r.tess
                  /\ stale' = [stale EXCEPT ![cur] = FALSE]
    /\ Continue
    /\ UNCHANGED << queue, fontChanged, text, weight, atlasOf, changed, redraw,
                    passQueue, passCached, events >>

\* The system returns: the lock guard is dropped
PassEnd ==
    /\ pc = "done"
    /\ pc' = "idle"
    /\ cur' = 1
    /\ redraw' = FALSE
    /\ passQueue' = << >>
    /\ path' = [e \in Entities |-> ""]
    /\ passCached' = [a \in AtlasIds |-> {}]
    /\ TicksConsumed
    /\ UNCHANGED << queue, storeVars, entityVars, tessCount, stale, events, drawVars >>

Next ==
    \/ \E e \in Entities, t \in TextIds : ChangeText(e, t)
    \/ \E e \in Entities, w \in Weights : ChangeStyling(e, w)
    \/ \E e \in Entities, c \in Components : Touch(e, c)
    \/ TouchFontSystem
    \/ \E i \in ImageIds : RemoveImage(i)
    \/ \E e \in Entities, kind \in {"2d", "3d"} : InsertMesh(e, kind)
    \/ \E a \in AtlasIds, g \in {1, 2} : ProducerPush(a, g)
    \/ \E acquired \in BOOLEAN : TryLock(acquired)
    \/ PassSkipped
    \/ DrainItem
    \/ DrainDone
    \/ EntityUnresolved
    \/ EntityUnchanged
    \/ EntityRebuild
    \/ PassEnd

Spec == Init /\ [][Next]_vars

\* The system run over entities spawned with any of the texts, while other
\* systems touch their bounds and segments
DrawNext ==
    \/ \E e \in Entities, c \in Components : Touch(e, c)
    \/ \E acquired \in BOOLEAN : TryLock(acquired)
    \/ PassSkipped
    \/ DrainDone
    \/ EntityUnchanged
    \/ EntityRebuild
    \/ PassEnd

DrawSpec == DrawInit /\ [][DrawNext]_vars

(* ======================= properties, C1 - C10 ========================== *)
\* The glyph requests the texts of the model can issue against an atlas: a
\* glyph, the weight override of its segment, the weight of the entity's
\* styling and the stroke of the draw request
GlyphRequests ==
    [glyph_id : {1, 2}, attrs_weight : {NoWeight, Bold}, styling_weight : Weights,
     stroke : {0, 1}]

RequestGlyph(r) == LayoutGlyph(r.glyph_id, 1)

RequestAttrs(r) == Seg(<<r.glyph_id>>, r.attrs_weight, r.stroke)

\* The identity of the glyph a request asks for: font, glyph id, size, the weight
\* it is rendered with, stroke width and join
Identity(r) ==
    GlyphEntry(1, r.glyph_id, 1, EffectiveWeight(RequestAttrs(r), r.styling_weight),
               StrokeJoin, r.stroke)

\* The image an atlas is bound to, or a blank one when it is bound to none
ImageOf(atlas) ==
    IF atlas.image # DefaultId /\ images[atlas.image].present
    THEN images[atlas.image]
    ELSE EmptyImage(DefaultAtlasW, DefaultAtlasH)

\* What get_atlas_rect does for request r against atlas a as it is now
Request(a, r) ==
    GetAtlasRect(r.styling_weight, atlases[a], ImageOf(atlases[a]), RequestGlyph(r),
                 RequestAttrs(r), r.stroke)

\* C1: once the placement of a glyph identity is stored in an atlas, every
\* get_atlas_rect call for that glyph with that style in that atlas is a cache
\* hit: it returns the stored placement and does not call the tessellator.
C1_StoredGlyphIsHit ==
    \A a \in AtlasIds, r \in GlyphRequests :
        (atlases[a].present /\ Identity(r) \in DOMAIN atlases[a].glyphs)
        => /\ Request(a, r).tess = 0
           /\ Request(a, r).result = <<atlases[a].glyphs[Identity(r)]>>

\* C2: in one atlas, two requests whose identities were both rendered get the
\* same placement exactly when their identities are equal in all fields.
C2_PlacementPerIdentity ==
    \A a \in AtlasIds, r1 \in GlyphRequests, r2 \in GlyphRequests :
        ( /\ atlases[a].present
          /\ Identity(r1) \in DOMAIN atlases[a].glyphs
          /\ Identity(r2) \in DOMAIN atlases[a].glyphs
          /\ Request(a, r1).tess = 0
          /\ Request(a, r2).tess = 0 )
        => ((Identity(r1) = Identity(r2)) <=> (Request(a, r1).result = Request(a, r2).result))

\* C3: a pass that took the lock and examined every entity (every atlas
\* resolved) leaves no entity whose input changed without a rebuilt mesh, also
\* when the pass that first saw the change was skipped.
C3_SkippedPassIsRetried ==
    (pc = "done" /\ \A e \in Entities : Resolved(e))
    => \A e \in Entities : ~stale[e]

\* C4: when the atlas of the entity at hand cannot be resolved, the step leaves
\* the stores and the entity's output alone and the iteration goes on with the
\* next entity (it ends only when this was the last one).
C4_OnlyUnresolvedEntitySkipped ==
    [][ (pc = "entity" /\ ~Resolved(cur))
        => ( /\ UNCHANGED << meshes, mesh2d, mesh3d, output >>
             /\ IF cur = NumEntities THEN pc' = "done"
                ELSE pc' = "entity" /\ cur' = cur + 1 ) ]_vars

\* C5: when try_lock fails the system returns at once: the next step is the
\* return, and neither the queue nor any atlas, image, mesh, mesh handle or
\* output record has changed on the way.
C5_LockedOutPassChangesNothing ==
    [][ (pc = "skipped")
        => ( /\ pc' = "idle"
             /\ UNCHANGED << queue, atlases, images, nextImage, meshes, nextMesh,
                             mesh2d, mesh3d, output, tessCount >> ) ]_vars

\* A pass was locked out while items were queued and entities were flagged
C5_Witness ==
    /\ pc = "skipped"
    /\ queue # << >>
    /\ \E e \in Entities : changed[e] # {}

\* The last item of q for each atlas id / image id is the one that stays
LastForAtlas(q, i) == \A j \in DOMAIN q : j > i => q[j].id # q[i].id

LastForImage(q, i) == \A j \in DOMAIN q : j > i => q[j].atlas.image # q[i].atlas.image

\* C6: no per-entity step runs while the queue is non-empty, and when the first
\* entity is about to be examined every item that was queued has been inserted
\* into both stores, in queue order (of two items with one id the later stays).
C6_QueueDrainedBeforeEntities ==
    /\ pc \in {"entity", "done"} => queue = << >>
    /\ (pc = "entity" /\ cur = 1 /\ path[1] = "")
       => \A i \in DOMAIN passQueue :
            /\ LastForAtlas(passQueue, i) => atlases[passQueue[i].id] = passQueue[i].atlas
            /\ LastForImage(passQueue, i)
               => images[passQueue[i].atlas.image] = passQueue[i].image

\* The entity loop begins after two different items for one atlas were drained
C6_Witness ==
    /\ pc = "entity" /\ cur = 1 /\ path[1] = ""
    /\ Len(passQueue) = 2
    /\ passQueue[1].id = passQueue[2].id
    /\ passQueue[1] # passQueue[2]
    /\ queue = << >>

\* C7: every glyph identity an atlas cached when a pass began is still cached
\* in that atlas when the pass ends.
C7_CacheNeverLosesEntry ==
    pc = "done" => \A a \in AtlasIds : passCached[a] \subseteq DOMAIN atlases[a].glyphs

\* Rectangle r lies within an image
Within(r, image) ==
    /\ 0 <= r[1] /\ r[1] <= r[3] /\ r[3] <= image.w
    /\ 0 <= r[2] /\ r[2] <= r[4] /\ r[4] <= image.h

\* C8: every placement cached in an atlas lies within the image the atlas is
\* bound to, whenever that image is in storage.
C8_PlacementsWithinImage ==
    \A a \in AtlasIds :
        (atlases[a].present /\ atlases[a].image # DefaultId
         /\ images[atlases[a].image].present)
        => \A k \in DOMAIN atlases[a].glyphs :
              Within(atlases[a].glyphs[k].rect, images[atlases[a].image])

\* The mesh an entity's handle refers to, and its quads
HandleOf(e) == IF mesh2d[e] # NoComponent THEN mesh2d[e] ELSE mesh3d[e]

QuadsOf(e) ==
    IF HandleOf(e) \in MeshIds /\ meshes[HandleOf(e)].present
    THEN meshes[HandleOf(e)].quads
    ELSE << >>

\* The dimensions of the image the entity's atlas is bound to
CurrentDimension(e) ==
    LET image == ImageOf(atlases[atlasOf[e]]) IN <<image.w, image.h>>

\* The axis (1: x, 2: y) of the k-th coordinate of a UV0 rectangle
Axis(k) == IF k \in {1, 3} THEN 1 ELSE 2

\* UV0 of a quad built anew against an image of dimensions dim
RebuiltUv0(q, dim) ==
    PixelToUv(CacheRectangle(<< >>, q.pixel, q.layer, q.index, q),
              Image(dim[1], dim[2]))[1].uv0

QuietPass ==
    /\ pc \in {"entity", "done"}
    /\ ~fontChanged
    /\ ~redraw
    /\ \A e \in Entities : changed[e] = {}

\* C10: a pass with nothing signalled calls the tessellator zero times, creates
\* no cache entry, appends no quad, and leaves every mesh as it was apart from
\* the UV0 rescale (UV0 times the recorded dimensions stays the same).
C10_QuietPassChangesNothing ==
    [][ QuietPass
        => /\ tessCount' = tessCount
           /\ \A a \in AtlasIds : atlases'[a].glyphs = atlases[a].glyphs
           /\ \A e \in Entities :
                 /\ Len(QuadsOf(e)') = Len(QuadsOf(e))
                 /\ \A i \in DOMAIN QuadsOf(e) :
                       /\ QuadsOf(e)'[i].pixel = QuadsOf(e)[i].pixel
                       /\ \A k \in 1..4 :
                             FracMul(QuadsOf(e)'[i].uv0[k],
                                     output'[e].atlas_dimension[Axis(k)], 1)
                               = FracMul(QuadsOf(e)[i].uv0[k],
                                         output[e].atlas_dimension[Axis(k)], 1) ]_vars

\* A pass with nothing signalled has gone through an entity whose mesh has quads
C10_Witness ==
    /\ QuietPass
    /\ pc = "done"
    /\ \E e \in Entities : path[e] \in {"kept", "rescaled"} /\ QuadsOf(e) # << >>
    /\ \E e \in Entities : path[e] = "rescaled"

(* ======================= properties, C11 - C20 ========================= *)
\* C11: in every entity's mesh the quads stand in the order of their layers, two
\* quads of one layer stand in the order in which their glyphs were processed
\* over all lines of the entity, and the insertion index of a quad is the number
\* of glyphs processed before its glyph.
C11_EqualLayerKeepsGlyphOrder ==
    \A e \in Entities :
        \A i \in DOMAIN QuadsOf(e), j \in DOMAIN QuadsOf(e) :
            /\ QuadsOf(e)[i].index = QuadsOf(e)[i].glyph - 1
            /\ i < j => /\ QuadsOf(e)[i].layer <= QuadsOf(e)[j].layer
                        /\ QuadsOf(e)[i].layer = QuadsOf(e)[j].layer
                           => QuadsOf(e)[i].glyph <= QuadsOf(e)[j].glyph

\* A stroked text of two lines was built: the sort moved the strokes before the
\* fills, and a layer holds glyphs of both lines
C11_Witness ==
    \E e \in Entities :
        /\ Len(LayoutRuns(Texts[text[e]])) = 2
        /\ Len(QuadsOf(e)) = 6
        /\ \E i \in DOMAIN QuadsOf(e), j \in DOMAIN QuadsOf(e) :
              i < j /\ QuadsOf(e)[i].glyph > QuadsOf(e)[j].glyph
        /\ \E i \in DOMAIN QuadsOf(e), j \in DOMAIN QuadsOf(e) :
              /\ QuadsOf(e)[i].layer = QuadsOf(e)[j].layer
              /\ QuadsOf(e)[i].glyph = 2 /\ QuadsOf(e)[j].glyph = 3

\* The decorated runs of a line: the spans of the underlined glyphs that follow
\* one another without a glyph that is not underlined between them
DecoratedRuns(glyphs, segments) ==
    { <<glyphs[i].x, RunEnd(glyphs, segments, i + 1)>> :
        i \in { k \in DOMAIN glyphs :
                  /\ segments[glyphs[k].metadata].underline
                  /\ k > 1 => ~segments[glyphs[k - 1].metadata].underline } }

\* The decoration rectangles in an entity's mesh
LineQuads(e) == { i \in DOMAIN QuadsOf(e) : QuadsOf(e)[i].kind = "line" }

\* C12: the mesh built for a one-line text holds exactly one decoration
\* rectangle for each decorated run of the line, spanning that run.
C12_OneRectanglePerRun ==
    \A e \in Entities :
        (path[e] = "rebuilt" /\ Len(LayoutRuns(Texts[text[e]])) = 1)
        => LET runs == DecoratedRuns(LayoutRuns(Texts[text[e]])[1], Texts[text[e]])
           IN /\ Cardinality(LineQuads(e)) = Cardinality(runs)
              /\ \A i \in LineQuads(e) : QuadsOf(e)[i].span \in runs

RECURSIVE SumAdvances(_)
SumAdvances(glyph_ids) ==
    IF glyph_ids = << >> THEN 0
    ELSE Advance(Head(glyph_ids)) + SumAdvances(Tail(glyph_ids))

\* A text of one line in one segment, without stroke or decoration, in which
\* every glyph has an outline
PlainLine(segments) ==
    /\ Len(segments) = 1
    /\ segments[1].stroke = 0 /\ ~segments[1].underline
    /\ segments[1].glyphs # << >>
    /\ \A i \in DOMAIN segments[1].glyphs :
          LET g == segments[1].glyphs[i]
          IN g # LineBreak /\ HasOutline(g) /\ FaceParses(FontOf(g))

\* C13: for such a text the width reported in the entity's output dimension is
\* the sum of the advances of its glyphs.
C13_WidthIsSumOfAdvances ==
    \A e \in Entities :
        (path[e] = "rebuilt" /\ PlainLine(Texts[text[e]]))
        => output[e].dimension[1] = Frac(SumAdvances(Texts[text[e]][1].glyphs), 1)

\* The glyphs of a text in the order in which they are processed
Processed(segments) ==
    SelectSeq(LayoutGlyphs(segments), LAMBDA g : g.glyph_id # LineBreak)

\* A glyph get_atlas_rect can give a placement for
Drawable(glyph) == FaceParses(glyph.font_id) /\ HasOutline(glyph.glyph_id)

\* The fill/stroke quads in an entity's mesh drawn for the k-th glyph
GlyphQuads(e, k) ==
    { i \in DOMAIN QuadsOf(e) : QuadsOf(e)[i].kind = "glyph" /\ QuadsOf(e)[i].glyph = k }

\* The fill/stroke requests of a segment style
GlyphRequestsOf(attrs) ==
    { i \in DOMAIN FillDrawRequests(attrs) : FillDrawRequests(attrs)[i].request = "Glyph" }

\* C14: for a glyph whose face does not parse or that has no outline,
\* get_atlas_rect returns no placement and leaves atlas and image as they are
\* (no atlas ever caches such a glyph); in a mesh just built such a glyph has no
\* fill/stroke quad, and every other glyph of the text, before or after it, has
\* one quad for each of its fill/stroke requests.
C14_UndrawableGlyphIsSkipped ==
    /\ \A a \in AtlasIds :
          /\ \A k \in DOMAIN atlases[a].glyphs :
                FaceParses(k.font) /\ k.glyph_id \notin {3, 5}
          /\ atlases[a].present
             => \A g \in {3, 5}, w \in Weights, stroke \in {0, 1} :
                   LET r == GetAtlasRect(w, atlases[a], ImageOf(atlases[a]),
                                         LayoutGlyph(g, 1), Seg(<<g>>, NoWeight, stroke),
                                         stroke)
                   IN /\ r.result = << >>
                      /\ r.tess = 0
                      /\ r.atlas = atlases[a]
                      /\ r.image = ImageOf(atlases[a])
    /\ \A e \in Entities :
          path[e] = "rebuilt"
          => LET segments == Texts[text[e]]
                 glyphs == Processed(segments)
             IN \A k \in DOMAIN glyphs :
                   Cardinality(GlyphQuads(e, k))
                     = IF glyphs[k].glyph_id \in {3, 5} THEN 0
                       ELSE Cardinality(GlyphRequestsOf(segments[glyphs[k].metadata]))

\* Meshes were built for a text with whitespace between two glyphs and for a
\* stroked text that begins with a glyph whose face does not parse
C14_Witness ==
    \E e1 \in Entities, e2 \in Entities :
        /\ path[e1] = "rebuilt" /\ path[e2] = "rebuilt"
        /\ \E k \in DOMAIN Processed(Texts[text[e1]]) :
              /\ Processed(Texts[text[e1]])[k].glyph_id = 3
              /\ GlyphQuads(e1, k + 1) # {}
              /\ GlyphQuads(e1, k - 1) # {}
        /\ \E k \in DOMAIN Processed(Texts[text[e2]]) :
              /\ Processed(Texts[text[e2]])[k].glyph_id = 5
              /\ Cardinality(GlyphQuads(e2, k + 1)) = 2

\* C16: the draw-request buffer is empty whenever the processing of a glyph has
\* ended (so also between entities and between passes), and every quad in a
\* mesh was drawn from a request that was pushed for the glyph it was drawn for.
C16_DrawRequestsAreEphemeral ==
    /\ draw_requests = << >>
    /\ pending = 0
    /\ \A e \in Entities :
          \A i \in DOMAIN QuadsOf(e) : QuadsOf(e)[i].from = QuadsOf(e)[i].glyph

\* In a pass after one that built meshes, an entity whose text has a glyph without
\* placement (its requests are skipped) was rebuilt after another entity
C16_Witness ==
    /\ pc = "done"
    /\ \E e \in Entities :
          /\ e > 1
          /\ path[e] = "rebuilt" /\ path[e - 1] = "rebuilt"
          /\ passCached[atlasOf[e]] # {}
          /\ \E k \in DOMAIN Processed(Texts[text[e]]) :
                ~Drawable(Processed(Texts[text[e]])[k])
          /\ QuadsOf(e) # << >>

\* C20: the width in the output dimension of an entity that was rebuilt is
\* greater than 0: 1/1000 when the mesh has no fill/stroke quad, and
\* max_x - min_x otherwise.
C20_WidthIsPositive ==
    \A e \in Entities :
        path[e] = "rebuilt"
        => /\ output[e].dimension[1][1] > 0 /\ output[e].dimension[1][2] > 0
           /\ (\A i \in DOMAIN QuadsOf(e) : QuadsOf(e)[i].kind # "glyph")
              => output[e].dimension[1] = <<1, 1000>>

\* C15: when a pass is over, every entity it rebuilt has recorded the dimensions
\* its atlas image has now, and its UV0 is the pixel rectangle divided by them.
C15_DivisorIsFinalImageSize ==
    pc = "done"
    => \A e \in Entities :
          path[e] = "rebuilt"
          => /\ output[e].atlas_dimension = CurrentDimension(e)
             /\ \A i \in DOMAIN QuadsOf(e) :
                   QuadsOf(e)[i].uv0 = RebuiltUv0(QuadsOf(e)[i], CurrentDimension(e))

\* C17: where the rebuild of an entity calls get_mesh and get_mesh returns a
\* mesh: a handle that was not bound is bound to a mesh that was not in storage
\* before and is there now, with every attribute empty; a handle that was bound
\* is bound as before; and every handle the entity carries refers to the mesh
\* returned.
C17_GetMeshIsGetOrCreate ==
    \A e \in Entities :
        LET gm == GetMesh(mesh2d[e], mesh3d[e], meshes, nextMesh)
        IN (pc = "entity" /\ cur = e /\ Resolved(e) /\ ~Unchanged(e) /\ gm.ok)
           => /\ gm.store[gm.id].present
              /\ \A h \in {<<mesh2d[e], gm.m2>>, <<mesh3d[e], gm.m3>>} :
                    /\ h[1] = DefaultId
                       => /\ h[2] \in MeshIds
                          /\ ~meshes[h[2]].present
                          /\ gm.store[h[2]] = DefaultMesh
                    /\ h[1] \in MeshIds => h[2] = h[1]
                    /\ h[1] # NoComponent => h[2] = gm.id

\* C18: in a pass that drained an item from the queue or found the font context
\* changed, no entity takes the unchanged path, and every entity whose atlas is
\* resolved takes the rebuild path, whatever its own change flags are.
C18_RedrawRebuildsEveryEntity ==
    [][ \A e \in Entities :
          (pc = "entity" /\ cur = e /\ (passQueue # << >> \/ fontChanged))
          => /\ path'[e] \notin {"kept", "rescaled"}
             /\ Resolved(e) => path'[e] \in {"rebuilt", "nomesh"} ]_vars

\* A pass that drained the queue, with the font context unchanged, rebuilt an
\* entity none of whose components was flagged
C18_Witness ==
    \E e \in Entities :
        /\ path[e] = "rebuilt"
        /\ changed[e] = {}
        /\ passQueue # << >>
        /\ ~fontChanged

\* The same for a pass that found the font context changed and the queue empty
C18_FontWitness ==
    \E e \in Entities :
        /\ path[e] = "rebuilt"
        /\ changed[e] = {}
        /\ passQueue = << >>
        /\ fontChanged

\* The entity's atlas and its image are in storage, and get_mesh gives a mesh
\* for the entity
MeshAvailable(e) ==
    /\ Resolved(e)
    /\ atlases[atlasOf[e]].image # DefaultId
    /\ images[atlases[atlasOf[e]].image].present
    /\ GetMesh(mesh2d[e], mesh3d[e], meshes, nextMesh).ok

\* C19: when a pass that took the lock with nothing signalled and nothing queued
\* is over, every entity whose mesh is available has recorded the dimensions its
\* atlas image has.
C19_RecordedDimensionsConverge ==
    (pc = "done" /\ QuietPass /\ passQueue = << >>)
    => \A e \in Entities :
          MeshAvailable(e) => output[e].atlas_dimension = CurrentDimension(e)

====
